---- MODULE Spec2Model ----
(***************************************************************************)
(* BillAnalyzer: the batch transaction of process_multiple_bills, the row  *)
(* insertion engine behind it and the duplicate check, modelled from       *)
(* src/bill_analyzer/bill_inserter.py and src/bill_analyzer/ods_sheets.py. *)
(*                                                                         *)
(* Conventions.  Row and cell indices are 0-based as in the Python code;   *)
(* a list xs of the code is a TLA+ sequence and xs[i] is written At(xs,i). *)
(* None is the integer NONE.  Amounts are integers counted in thousandths  *)
(* of a euro, so 0.01 is 10 and 0.009 is 9.  Text that the code normalises *)
(* (store names) is a sequence of one-character strings.                   *)
(***************************************************************************)
EXTENDS Integers, Sequences, FiniteSets, TLC

VARIABLES
    pc,           \* position of the running call
    bills_data,   \* argument of process_multiple_bills
    order,        \* the stable sort, as input positions (0-based) in sorted order
    idx,          \* loop index of `for idx, bill_data in enumerate(sorted_bills, 1)`
    file,         \* content of ODS_FILE on disk
    backup,       \* content of the backup file, NoFile when there is none
    doc,          \* the loaded in-memory document, NoDoc when not loaded
    raised,       \* the exception propagating out of the call, "" when none
    orig,         \* history: content of ODS_FILE when the call started
    hist,         \* history: the file-level steps taken, in order
    log,          \* history: input positions handed to _insert_single_bill_data
    cand,         \* the bill handed to check_duplicate_bill or to the row search
    result,       \* what check_duplicate_bill or the row search returned
    scanned       \* history: rows handed to _process_bill_row_for_duplicate

vars == <<pc, bills_data, order, idx, file, backup, doc, raised, orig, hist,
          log, cand, result, scanned>>

----------------------------------------------------------------------------
(* Program constants *)

COL_DATE == 1
COL_STORE == 2
COL_ITEM == 3
COL_PRICE == 4
COL_TOTAL == 5

\* _BillSearchCriteria.epsilon = 0.01, in thousandths
EPSILON == 10

\* `len(cells) <= 10` in _find_last_data_row_and_template
WIDTH_CAP == 10

NONE == -1

----------------------------------------------------------------------------
(* Bounds of the model *)

\* longest batch handed to process_multiple_bills
MaxBills == 3

\* most rows of the sheet the duplicate check scans
MaxRows == 3

\* most calls of check_duplicate_bill in a row
MaxCalls == 2

----------------------------------------------------------------------------
(* Python lists *)

At(xs, i) == xs[i + 1]

\* list.insert(i, x): x ends up at index i
InsertAt(xs, i, x) == SubSeq(xs, 1, i) \o <<x>> \o SubSeq(xs, i + 1, Len(xs))

Max(a, b) == IF a >= b THEN a ELSE b

----------------------------------------------------------------------------
(* Dates.  A calendar date (datetime.date) is the integer y*10000+m*100+d, *)
(* so that dates compare as the code compares them.  A date string is a    *)
(* record: "a-b-c" (f = "iso"), "a.b.c" (f = "dot"), text that holds no    *)
(* date (f = "bad") or the empty string (f = "").                          *)

Date(y, m, d) == y * 10000 + m * 100 + d

IsoStr(y, m, d) == [f |-> "iso", a |-> y, b |-> m, c |-> d]
DotStr(d, m, y) == [f |-> "dot", a |-> d, b |-> m, c |-> y]
BadStr == [f |-> "bad", a |-> 0, b |-> 0, c |-> 0]
EmptyStr == [f |-> "", a |-> 0, b |-> 0, c |-> 0]

\* a two-digit year as dateutil completes it
ConvertYear(y) == IF y < 100 THEN 2000 + y ELSE y

\* a date, or NONE when month or day is out of range (ValueError)
ValidDate(y, m, d) ==
    IF m >= 1 /\ m <= 12 /\ d >= 1 /\ d <= 31 THEN Date(ConvertYear(y), m, d) ELSE NONE

\* dparser.parse(s, dayfirst=True).date(): dateutil resolves three numbers
\* year-first when the first exceeds 31 (and then, with dayfirst, reads the
\* third as the month whenever it is at most 12), otherwise day-first when
\* that is possible.  NONE stands for the ValueError it raises.
DparserParse(s) ==
    IF s.f \notin {"iso", "dot"} THEN NONE
    ELSE IF s.a > 31
         THEN IF s.c <= 12 THEN ValidDate(s.a, s.c, s.b) ELSE ValidDate(s.a, s.b, s.c)
    ELSE IF s.a > 12 \/ s.b <= 12 THEN ValidDate(s.c, s.b, s.a)
    ELSE ValidDate(s.c, s.a, s.b)

\* utils.parse_date: ISO parsing first, then day-first parsing; NONE when
\* the text is no date
ParseDate(s) ==
    IF s.f = "iso" /\ ValidDate(s.a, s.b, s.c) # NONE THEN ValidDate(s.a, s.b, s.c)
    ELSE DparserParse(s)

YearOf(d) == d \div 10000
MonthOf(d) == (d \div 100) % 100
DayOf(d) == d % 100

\* date.strftime("%Y-%m-%d")
IsoFormat(d) == IsoStr(YearOf(d), MonthOf(d), DayOf(d))

MonthAbbr ==
    <<"Jan", "Feb", "Mar", "Apr", "May", "Jun", "Jul", "Aug", "Sep", "Oct", "Nov", "Dec">>

TwoDigits(k) == IF k < 10 THEN "0" \o ToString(k) ELSE ToString(k)

\* f"{date_parsed.strftime('%b')} {date_parsed.strftime('%y')}"
SheetNameOf(d) == MonthAbbr[MonthOf(d)] \o " " \o TwoDigits(YearOf(d) % 100)

----------------------------------------------------------------------------
(* Text.  str.lower, str.upper and str.strip on sequences of characters.   *)
(* The alphabet holds the letters of the store names used below; the sharp *)
(* s has no upper-case letter of its own and str.upper writes it "SS".     *)

LowerChar(c) ==
    CASE c = "R" -> "r" [] c = "E" -> "e" [] c = "W" -> "w" [] c = "S" -> "s"
      [] c = "A" -> "a" [] c = "L" -> "l" [] c = "D" -> "d" [] c = "I" -> "i"
      [] OTHER -> c

UpperChar(c) ==
    CASE c = "r" -> <<"R">> [] c = "e" -> <<"E">> [] c = "w" -> <<"W">>
      [] c = "s" -> <<"S">> [] c = "a" -> <<"A">> [] c = "l" -> <<"L">>
      [] c = "d" -> <<"D">> [] c = "i" -> <<"I">> [] c = "ß" -> <<"S", "S">>
      [] OTHER -> <<c>>

IsSpace(c) == c = " "

Lower(s) == [i \in 1..Len(s) |-> LowerChar(s[i])]

RECURSIVE Upper(_)
Upper(s) == IF s = <<>> THEN <<>> ELSE UpperChar(Head(s)) \o Upper(Tail(s))

RECURSIVE LStrip(_)
LStrip(s) == IF s # <<>> /\ IsSpace(Head(s)) THEN LStrip(Tail(s)) ELSE s

RECURSIVE RStrip(_)
RStrip(s) ==
    IF s # <<>> /\ IsSpace(s[Len(s)]) THEN RStrip(SubSeq(s, 1, Len(s) - 1)) ELSE s

Strip(s) == RStrip(LStrip(s))

\* the text padded with a blank on both sides
Padded(s) == <<" ">> \o s \o <<" ">>

----------------------------------------------------------------------------
(* Cells, rows, sheets.  A row of n cells is a record of the cells the     *)
(* code reads by column role: date (a date string), store (text), item (a  *)
(* string), price and total (number cells), and tail, the cells after      *)
(* TOTAL.  A cell the row is too short to have is empty in the record.     *)
(* Cell 0, which the code never reads, only counts towards n.              *)

EmptyCell == [k |-> "", v |-> 0]
Num(x) == [k |-> "num", v |-> x]
Txt == [k |-> "text", v |-> 0]

MkRow(n, date, store, item, price, total, tail) ==
    [n |-> n, date |-> date, store |-> store, item |-> item, price |-> price,
     total |-> total, tail |-> tail]

EmptyTail(n) == [i \in 1..Max(0, n - (COL_TOTAL + 1)) |-> EmptyCell]

\* a row of n empty text cells
BlankRow(n) == MkRow(n, EmptyStr, <<>>, "", EmptyCell, EmptyCell, EmptyTail(n))

\* ods_cells.get_cell_value is truthy and not blank: a number cell holding 0
\* yields the falsy 0.0
NumHasValue(c) == c.k = "text" \/ (c.k = "num" /\ c.v # 0)

\* `cell_value and str(cell_value).strip()` for the cell at col_idx
HasValue(row, col_idx) ==
    CASE col_idx = COL_STORE -> Strip(row.store) # <<>>
      [] col_idx = COL_ITEM -> row.item # ""
      [] col_idx = COL_PRICE -> NumHasValue(row.price)
      [] col_idx = COL_TOTAL -> NumHasValue(row.total)
      [] OTHER -> FALSE

\* has_existing_data(cells): range(COL_STORE, COL_TOTAL) leaves TOTAL out
has_existing_data(row) ==
    \E col_idx \in COL_STORE..(COL_TOTAL - 1) : col_idx < row.n /\ HasValue(row, col_idx)

\* what a loop `for idx ...: if test: return idx` followed by `return None`
\* returns, given the indices that pass the test
FirstOrNone(S) == IF S = {} THEN NONE ELSE CHOOSE i \in S : \A j \in S : i <= j

\* find_sheet_by_name returning the loop variable once the loop has ended:
\* the last sheet stands in for a sheet that is not there
find_sheet_by_name_LastSheet(d, sheet_name) ==
    IF \E i \in 0..(Len(d) - 1) : At(d, i).name = sheet_name
    THEN FirstOrNone({i \in 0..(Len(d) - 1) : At(d, i).name = sheet_name})
    ELSE Len(d) - 1

\* find_sheet_by_name: index of the first sheet with exactly that name
find_sheet_by_name(d, sheet_name) ==
    FirstOrNone({i \in 0..(Len(d) - 1) : At(d, i).name = sheet_name})

\* the test of find_date_row's loop body for one row: a DATE cell that is
\* blank or does not parse is passed over
DateRowMatches(row, target_date) ==
    /\ row.n > COL_DATE
    /\ row.date.f # ""
    /\ target_date # NONE
    /\ DparserParse(row.date) = target_date

\* faulty variant, for sensitivity: a DATE cell that does not parse ends the
\* search
find_date_row_StoppingAtBadDate(rows, target_date) ==
    FirstOrNone({i \in 0..(Len(rows) - 1) :
                   /\ DateRowMatches(At(rows, i), target_date)
                   /\ \A j \in 0..(i - 1) :
                         At(rows, j).date.f = "" \/ DparserParse(At(rows, j).date) # NONE})

\* find_date_row: the first row whose DATE cell parses to target_date
find_date_row(rows, target_date) ==
    FirstOrNone({i \in 0..(Len(rows) - 1) : DateRowMatches(At(rows, i), target_date)})

\* has_data of _find_last_data_row_and_template: range(COL_STORE, COL_TOTAL + 1)
RowHasData(row) ==
    \E col_idx \in COL_STORE..COL_TOTAL : col_idx < row.n /\ HasValue(row, col_idx)

\* faulty variant, for sensitivity: a row wider than WIDTH_CAP raises num to
\* WIDTH_CAP instead of being left out
LastDataStep_Capping(prev, row, i) ==
    IF row.n <= COL_TOTAL THEN prev
    ELSE [last |-> IF RowHasData(row) THEN i ELSE prev.last,
          num |-> IF row.n > prev.num
                  THEN (IF row.n <= WIDTH_CAP THEN row.n ELSE WIDTH_CAP)
                  ELSE prev.num]

\* _find_last_data_row_and_template, the state of its loop after the rows
\* before index k: rows of at most COL_TOTAL cells are skipped, a wider row
\* raises num only when it has at most WIDTH_CAP cells
\* one turn of that loop on the row at index i
LastDataStep(prev, row, i) ==
    IF row.n <= COL_TOTAL THEN prev
    ELSE [last |-> IF RowHasData(row) THEN i ELSE prev.last,
          num |-> IF row.n > prev.num /\ row.n <= WIDTH_CAP THEN row.n ELSE prev.num]

RECURSIVE LastDataScan(_, _)
LastDataScan(rows, k) ==
    IF k = 0 THEN [last |-> NONE, num |-> COL_TOTAL + 1]
    ELSE LastDataStep(LastDataScan(rows, k - 1), At(rows, k - 1), k - 1)

find_last_data_row_and_template(rows) == LastDataScan(rows, Len(rows))

\* _create_row_with_cells for the date row: the DATE cell holds new_date
DateRow(num_cells, new_date) ==
    [BlankRow(num_cells) EXCEPT !.date = IsoFormat(new_date)]

\* _find_new_row_index: the first row whose DATE value is the ISO text,
\* else the last index
find_new_row_index(rows, target_date_iso) ==
    IF \E i \in 0..(Len(rows) - 1) :
          At(rows, i).n > COL_DATE /\ At(rows, i).date = target_date_iso
    THEN FirstOrNone({i \in 0..(Len(rows) - 1) :
                        At(rows, i).n > COL_DATE /\ At(rows, i).date = target_date_iso})
    ELSE Len(rows) - 1

\* where create_new_date_row inserts: before reference_row, which is
\* rows[insert_after_idx + 1], or at the end when there is no such row
InsertionPoint(rows, last_data_row_idx) ==
    IF last_data_row_idx # NONE /\ last_data_row_idx + 1 < Len(rows)
    THEN last_data_row_idx + 1
    ELSE Len(rows)

\* the blank separator row and the date row put in at index at
WithDateRows(rows, at, num_cells, new_date) ==
    InsertAt(InsertAt(rows, at, BlankRow(num_cells)), at + 1, DateRow(num_cells, new_date))

\* the rows afterwards and the index of the date row, which is looked up again
CreatedAt(new_rows, new_date) ==
    [rows |-> new_rows, idx |-> find_new_row_index(new_rows, IsoFormat(new_date))]

\* create_new_date_row, given what _find_last_data_row_and_template found
CreateAfter(rows, found, new_date) ==
    CreatedAt(WithDateRows(rows, InsertionPoint(rows, found.last), found.num, new_date),
              new_date)

\* create_new_date_row: the rows afterwards and the index it returns
create_new_date_row(rows, new_date) ==
    CreateAfter(rows, find_last_data_row_and_template(rows), new_date)

----------------------------------------------------------------------------
(* Inserting one bill.  A bill is [store, date, items, total]; an item is  *)
(* [name, price].  An operation that can raise yields exc, the exception's *)
(* name, "" when it returns normally.                                      *)

\* _write_first_bill_item: bill_data["items"][0] and cells[COL_STORE..COL_PRICE]
\* raise IndexError on an empty item list or a short row; then TOTAL and the
\* cells after it are cleared, and TOTAL is written for a one-item bill
write_first_bill_item(row, bill) ==
    IF Len(bill.items) = 0 \/ row.n <= COL_STORE THEN [row |-> row, exc |-> "IndexError"]
    ELSE IF row.n <= COL_ITEM
         THEN [row |-> [row EXCEPT !.store = bill.store], exc |-> "IndexError"]
    ELSE IF row.n <= COL_PRICE
         THEN [row |-> [row EXCEPT !.store = bill.store, !.item = bill.items[1].name],
               exc |-> "IndexError"]
    ELSE [row |-> [row EXCEPT !.store = bill.store,
                              !.item = bill.items[1].name,
                              !.price = Num(bill.items[1].price),
                              !.total = IF Len(bill.items) = 1 /\ row.n > COL_TOTAL
                                        THEN Num(bill.total) ELSE EmptyCell,
                              !.tail = EmptyTail(row.n)],
          exc |-> ""]

\* create_item_row(cells, row_style, item_name, item_price, total_price=...):
\* as many cells as the template; `total_price` is written when it is truthy
create_item_row(template, item_name, item_price, total_price) ==
    MkRow(template.n, EmptyStr, <<>>,
          IF template.n > COL_ITEM THEN item_name ELSE "",
          IF template.n > COL_PRICE THEN Num(item_price) ELSE EmptyCell,
          IF template.n > COL_TOTAL /\ total_price # NONE /\ total_price # 0
          THEN Num(total_price) ELSE EmptyCell,
          EmptyTail(template.n))

\* faulty variant, for sensitivity: each row goes in right after the target
\* row, so the rows end up in reverse item order
remaining_item_rows_Reversed(template, bill) ==
    [i \in 1..(Len(bill.items) - 1) |->
        create_item_row(template, bill.items[Len(bill.items) + 1 - i].name,
                        bill.items[Len(bill.items) + 1 - i].price,
                        IF i = 1 THEN bill.total ELSE NONE)]

\* _insert_remaining_items: the rows made for items[1:], in insertion order
remaining_item_rows(template, bill) ==
    [i \in 1..(Len(bill.items) - 1) |->
        create_item_row(template, bill.items[i + 1].name, bill.items[i + 1].price,
                        IF i = Len(bill.items) - 1 THEN bill.total ELSE NONE)]

\* faulty variant, for sensitivity: the saved row goes back without a
\* separator row above it
restore_old_data_NoSeparator(old_row) == <<old_row>>

\* _restore_old_data: a blank separator row, then the saved row as a new row
restore_old_data(old_row) == <<BlankRow(old_row.n), old_row>>

\* the date row of _find_target_sheet_and_row: the row find_date_row found
\* at target_row_idx, else the one create_new_date_row makes
TargetRow(rows, date_parsed, target_row_idx) ==
    IF target_row_idx # NONE THEN [rows |-> rows, idx |-> target_row_idx]
    ELSE create_new_date_row(rows, date_parsed)

find_target_row(rows, date_parsed) ==
    TargetRow(rows, date_parsed, find_date_row(rows, date_parsed))

\* _insert_single_bill_data after the header write: the rows for the other
\* items, then the blank row and the saved old row, all go in before
\* reference_row = rows[target_row_idx + 1], or to the end when there is none
InsertAfterWrite(rows, target_row_idx, old_row, written, bill) ==
    IF written.exc # ""
    THEN [rows |-> [rows EXCEPT ![target_row_idx + 1] = written.row], exc |-> written.exc]
    ELSE [rows |-> SubSeq(rows, 1, target_row_idx) \o <<written.row>>
                     \o remaining_item_rows(written.row, bill)
                     \o (IF has_existing_data(old_row) THEN restore_old_data(old_row)
                         ELSE <<>>)
                     \o SubSeq(rows, target_row_idx + 2, Len(rows)),
          exc |-> ""]

\* _insert_single_bill_data from `rows = ...getElementsByType(table.TableRow)` on
InsertAtTarget(target, bill) ==
    InsertAfterWrite(target.rows, target.idx, At(target.rows, target.idx),
                     write_first_bill_item(At(target.rows, target.idx), bill), bill)

\* _insert_single_bill_data on the rows of the target sheet
insert_into_rows(rows, bill, date_parsed) ==
    InsertAtTarget(find_target_row(rows, date_parsed), bill)

\* the document with the rows of one sheet replaced
WithRows(d, sheet_idx, done) ==
    [doc |-> [d EXCEPT ![sheet_idx + 1].rows = done.rows], exc |-> done.exc]

\* faulty variant, for sensitivity: a missing sheet raises instead of being skipped
InsertInSheet_Raising(d, bill, date_parsed, sheet_idx) ==
    IF sheet_idx = NONE THEN [doc |-> d, exc |-> "SheetNotFound"]
    ELSE WithRows(d, sheet_idx, insert_into_rows(At(d, sheet_idx).rows, bill, date_parsed))

\* _insert_single_bill_data once find_sheet_by_name has answered: a bill
\* whose sheet is missing is skipped, leaving the document as it is
InsertInSheet(d, bill, date_parsed, sheet_idx) ==
    IF sheet_idx = NONE THEN [doc |-> d, exc |-> ""]
    ELSE WithRows(d, sheet_idx, insert_into_rows(At(d, sheet_idx).rows, bill, date_parsed))

\* _insert_single_bill_data once the date is parsed (dparser.parse raises
\* ValueError on text that is no date)
InsertParsed(d, bill, date_parsed) ==
    IF date_parsed = NONE THEN [doc |-> d, exc |-> "ValueError"]
    ELSE InsertInSheet(d, bill, date_parsed, find_sheet_by_name(d, SheetNameOf(date_parsed)))

\* _insert_single_bill_data(doc, bill_data)
insert_single_bill_data(d, bill) == InsertParsed(d, bill, DparserParse(bill.date))

----------------------------------------------------------------------------
(* The sort of process_multiple_bills *)

\* key=lambda bill: dparser.parse(bill["date"], dayfirst=True).date()
SortKey(bill) == DparserParse(bill.date)

\* faulty variant, for sensitivity: a sort that puts a bill before the placed bills of the same date
InsertByKey_Unstable(placed, p, bills) ==
    InsertAt(placed,
             Cardinality({i \in 1..Len(placed) :
                            SortKey(At(bills, placed[i])) < SortKey(At(bills, p))}),
             p)

\* position p put after every position already placed whose key is not larger
InsertByKey(placed, p, bills) ==
    InsertAt(placed,
             Cardinality({i \in 1..Len(placed) :
                            SortKey(At(bills, placed[i])) <= SortKey(At(bills, p))}),
             p)

\* faulty variant, for sensitivity: the bills are taken in input order
StableSort_InputOrder(bills) == [i \in 1..Len(bills) |-> i - 1]

\* sorted(bills_data, key=...): the input positions in sorted order; sorted()
\* is stable, so positions with equal keys stay in input order
RECURSIVE SortedPositions(_, _)
SortedPositions(bills, k) ==
    IF k = 0 THEN <<>> ELSE InsertByKey(SortedPositions(bills, k - 1), k - 1, bills)

StableSort(bills) == SortedPositions(bills, Len(bills))

----------------------------------------------------------------------------
(* The duplicate check *)

\* str(cell) is not empty
DateText(row) == row.date.f # ""
StoreText(row) == row.store # <<>>

\* _has_matching_date(cells, target_date_str)
has_matching_date(row, target_date) ==
    /\ row.n > COL_DATE
    /\ DateText(row)
    /\ ParseDate(row.date) # NONE
    /\ ParseDate(row.date) = target_date

\* found_store.strip().lower() and bill_data["store"].strip().lower()
Normalized(store) == Lower(Strip(store))

\* _get_store_from_bill_start(rows, start_idx, store), its loop from row i on
RECURSIVE StoreScan(_, _, _, _)
StoreScan(rows, start_idx, i, store) ==
    IF i >= Len(rows) THEN NONE
    ELSE IF At(rows, i).n <= COL_STORE THEN StoreScan(rows, start_idx, i + 1, store)
    ELSE IF start_idx # i /\ DateText(At(rows, i)) THEN NONE
    ELSE IF ~StoreText(At(rows, i)) \/ Normalized(At(rows, i).store) # store
         THEN StoreScan(rows, start_idx, i + 1, store)
    ELSE i

get_store_from_bill_start(rows, start_idx, store) ==
    StoreScan(rows, start_idx, start_idx, store)

\* _find_total_in_bill_group(rows, start_idx, total), its loop from row i on:
\* `float(found_total) != total` is an exact comparison
RECURSIVE TotalScan(_, _, _, _)
TotalScan(rows, start_idx, i, total) ==
    IF i >= Len(rows) THEN NONE
    ELSE IF At(rows, i).n <= COL_TOTAL THEN TotalScan(rows, start_idx, i + 1, total)
    ELSE IF start_idx # i /\ (DateText(At(rows, i)) \/ StoreText(At(rows, i)))
         THEN NONE
    ELSE IF At(rows, i).total.k # "num" THEN TotalScan(rows, start_idx, i + 1, total)
    ELSE IF At(rows, i).total.v # total THEN NONE
    ELSE i

find_total_in_bill_group(rows, start_idx, total) ==
    TotalScan(rows, start_idx, start_idx, total)

\* one turn of `while new_idx is None` once the store search has answered
RECURSIVE RetryFrom(_, _, _)
RetryStep(rows, store_idx, criteria) ==
    IF store_idx = NONE THEN FALSE
    ELSE IF find_total_in_bill_group(rows, store_idx, criteria.total) # NONE THEN TRUE
    ELSE RetryFrom(rows, store_idx + 1, criteria)

\* the while loop of _process_bill_row_for_duplicate, entered at row i
RetryFrom(rows, i, criteria) ==
    RetryStep(rows, get_store_from_bill_start(rows, i, criteria.store_normalized),
              criteria)

\* _process_bill_row_for_duplicate(rows, i, criteria)
process_bill_row_for_duplicate(rows, i, criteria) ==
    /\ has_matching_date(At(rows, i), criteria.date)
    /\ RetryFrom(rows, i, criteria)

\* `for i in range(len(rows))` of _check_duplicate_bill from row i on: the
\* answer and the number of rows handed to _process_bill_row_for_duplicate
RECURSIVE ScanRows(_, _, _)
ScanRows(rows, i, criteria) ==
    IF i >= Len(rows) THEN [res |-> FALSE, scanned |-> i]
    ELSE IF process_bill_row_for_duplicate(rows, i, criteria)
         THEN [res |-> TRUE, scanned |-> i + 1]
    ELSE ScanRows(rows, i + 1, criteria)

\* _BillSearchCriteria(date_str=..., store_normalized=..., total=...)
Criteria(bill, date_parsed) ==
    [date |-> date_parsed, store_normalized |-> Normalized(bill.store),
     total |-> bill.total]

\* _check_duplicate_bill once find_sheet_by_name has answered
CheckInSheet(d, bill, date_parsed, sheet_idx) ==
    IF sheet_idx = NONE THEN [res |-> FALSE, scanned |-> 0]
    ELSE ScanRows(At(d, sheet_idx).rows, 0, Criteria(bill, date_parsed))

\* _check_duplicate_bill(doc, bill_data), for a bill whose date parses
check_duplicate_bill(d, bill) ==
    CheckInSheet(d, bill, DparserParse(bill.date),
                 find_sheet_by_name(d, SheetNameOf(DparserParse(bill.date))))

----------------------------------------------------------------------------
(* Files.  The content of a file is a document, garbage left by a write    *)
(* that failed half way, or nothing (the file does not exist).             *)

FileOf(d) == [state |-> "ok", doc |-> d]
Corrupt == [state |-> "corrupt", doc |-> <<>>]
NoFile == [state |-> "absent", doc |-> <<>>]
NoDoc == <<>>

----------------------------------------------------------------------------
(* The inputs the model runs on *)

Rewe == <<"R", "e", "w", "e">>
Aldi == <<"A", "l", "d", "i">>

Item(name, price) == [name |-> name, price |-> price]
Bill(store, date, items, total) ==
    [store |-> store, date |-> date, items |-> items, total |-> total]

\* two items, 15 January 2025 written as ISO text
BillJan15 == Bill(Rewe, IsoStr(2025, 1, 15), <<Item("milk", 1500), Item("bread", 2000)>>, 3500)
\* one item, 5 January 2025 written day first
BillJan05 == Bill(Aldi, DotStr(5, 1, 25), <<Item("eggs", 1200)>>, 1200)
\* one item, the same day as BillJan15
BillJan15b == Bill(Aldi, DotStr(15, 1, 25), <<Item("salt", 900)>>, 900)
\* a bill of March 2025, a month the documents have no sheet for
BillMar10 == Bill(Rewe, DotStr(10, 3, 25), <<Item("rice", 700)>>, 700)
\* a bill without items
BillNoItems == Bill(Aldi, DotStr(20, 1, 25), <<>>, 0)
\* a bill whose date is no date
BillBadDate == Bill(Rewe, BadStr, <<Item("soap", 300)>>, 300)

\* three items, 20 January 2025, a day no sheet has a row for
BillJan20 ==
    Bill(Rewe, IsoStr(2025, 1, 20),
         <<Item("cheese", 800), Item("nuts", 300), Item("figs", 400)>>, 1500)

\* two items that cancel out, so a total of zero, 3 January 2025
BillZero ==
    Bill(Aldi, DotStr(3, 1, 25), <<Item("deposit", 250), Item("refund", -250)>>, 0)

BillPool ==
    {BillJan15, BillJan05, BillJan15b, BillMar10, BillNoItems, BillBadDate, BillJan20,
     BillZero}

Stale == <<Txt>>

\* a sheet with a bill of 3 January and an empty row prepared for 15 January
JanRowsA ==
    << MkRow(7, DotStr(3, 1, 25), Rewe, "tea", Num(250), Num(250), EmptyTail(7)),
       BlankRow(7),
       MkRow(7, DotStr(15, 1, 25), <<>>, "", EmptyCell, EmptyCell, Stale) >>

\* a sheet where 15 January already anchors a bill and 5 January is a short row
JanRowsB ==
    << MkRow(3, DotStr(5, 1, 25), <<>>, "", EmptyCell, EmptyCell, <<>>),
       MkRow(7, DotStr(15, 1, 25), Aldi, "jam", Num(400), EmptyCell, EmptyTail(7)),
       MkRow(7, EmptyStr, <<>>, "oil", Num(600), Num(1000), EmptyTail(7)),
       BlankRow(7) >>

FebRows ==
    << MkRow(7, DotStr(1, 2, 25), Aldi, "soap", Num(100), Num(100), EmptyTail(7)) >>

Sheet(name, rows) == [name |-> name, rows |-> rows]

DocA == << Sheet("Jan 25", JanRowsA), Sheet("Feb 25", FebRows) >>
DocB == << Sheet("Feb 25", FebRows), Sheet("jan 25", FebRows), Sheet("Jan 25", JanRowsB) >>

\* a sheet whose row for 15 January holds a total and nothing else
JanRowsC ==
    << MkRow(7, DotStr(15, 1, 25), <<>>, "", EmptyCell, Num(1234), EmptyTail(7)) >>

DocC == << Sheet("Jan 25", JanRowsC) >>

DocPool == {DocA, DocB, DocC}

Batches == UNION {[1..n -> BillPool] : n \in 0..MaxBills}

NoCand == Bill(<<>>, EmptyStr, <<>>, 0)

----------------------------------------------------------------------------
(* process_multiple_bills(bills_data), one action per step *)

Step(name) == hist' = Append(hist, name)

CurrentBill == At(bills_data, order[idx])

\* faulty variant, for sensitivity: the empty batch is not returned early
ReturnEmpty_GoesOn ==
    /\ pc = "call" /\ bills_data = <<>>
    /\ pc' = "sorted"
    /\ UNCHANGED <<bills_data, order, idx, file, backup, doc, raised, orig, hist, log,
                   cand, result, scanned>>

\* `if not bills_data: return`
ReturnEmpty ==
    /\ pc = "call" /\ bills_data = <<>>
    /\ pc' = "returned"
    /\ UNCHANGED <<bills_data, order, idx, file, backup, doc, raised, orig, hist, log,
                   cand, result, scanned>>

\* sorted(...) when every date parses
SortBills ==
    /\ pc = "call" /\ bills_data # <<>>
    /\ \A i \in 1..Len(bills_data) : SortKey(bills_data[i]) # NONE
    /\ order' = StableSort(bills_data)
    /\ pc' = "sorted"
    /\ UNCHANGED <<bills_data, idx, file, backup, doc, raised, orig, hist, log,
                   cand, result, scanned>>

\* faulty variant, for sensitivity: the sort inside the try block, so that a
\* key that raises reaches the handler
SortRaises_InsideTry ==
    /\ pc = "call" /\ bills_data # <<>>
    /\ \E i \in 1..Len(bills_data) : SortKey(bills_data[i]) = NONE
    /\ raised' = "ValueError"
    /\ pc' = "except"
    /\ UNCHANGED <<bills_data, order, idx, file, backup, doc, orig, hist, log,
                   cand, result, scanned>>

\* sorted(...) when a key raises: the call ends before create_backup
SortRaises ==
    /\ pc = "call" /\ bills_data # <<>>
    /\ \E i \in 1..Len(bills_data) : SortKey(bills_data[i]) = NONE
    /\ raised' = "ValueError"
    /\ pc' = "raised"
    /\ UNCHANGED <<bills_data, order, idx, file, backup, doc, orig, hist, log,
                   cand, result, scanned>>

\* backup_path = create_backup(ODS_FILE)
CreateBackup ==
    /\ pc = "sorted"
    /\ backup' = file
    /\ Step("backup")
    /\ pc' = "backed_up"
    /\ UNCHANGED <<bills_data, order, idx, file, doc, raised, orig, log, cand, result, scanned>>

\* faulty variant, for sensitivity: create_backup called inside the try
\* block, so that its failure reaches the handler
CreateBackupFails_InsideTry ==
    /\ pc = "sorted"
    /\ raised' = "BackupError"
    /\ pc' = "except"
    /\ UNCHANGED <<bills_data, order, idx, file, backup, doc, orig, hist, log,
                   cand, result, scanned>>

\* create_backup raises, outside the try block
CreateBackupFails ==
    /\ pc = "sorted"
    /\ raised' = "BackupError"
    /\ pc' = "raised"
    /\ UNCHANGED <<bills_data, order, idx, file, backup, doc, orig, hist, log,
                   cand, result, scanned>>

\* doc = load(ODS_FILE)
LoadDocument ==
    /\ pc = "backed_up"
    /\ doc' = file.doc
    /\ idx' = 1
    /\ Step("load")
    /\ pc' = "inserting"
    /\ UNCHANGED <<bills_data, order, file, backup, raised, orig, log, cand, result, scanned>>

\* load raises
LoadFails ==
    /\ pc = "backed_up"
    /\ raised' = "LoadError"
    /\ pc' = "except"
    /\ UNCHANGED <<bills_data, order, idx, file, backup, doc, orig, hist, log,
                   cand, result, scanned>>

\* faulty variant, for sensitivity: the document is written to the file after every bill
InsertBill_SavingEach ==
    /\ pc = "inserting" /\ idx <= Len(order)
    /\ \E done \in {insert_single_bill_data(doc, CurrentBill)} :
           /\ doc' = done.doc
           /\ raised' = done.exc
           /\ pc' = IF done.exc = "" THEN "inserting" ELSE "except"
           /\ file' = IF done.exc = "" THEN FileOf(done.doc) ELSE file
    /\ idx' = idx + 1
    /\ log' = Append(log, order[idx])
    /\ Step("insert")
    /\ UNCHANGED <<bills_data, order, backup, orig, cand, result, scanned>>

\* faulty variant, for sensitivity: a bill the duplicate check finds in the
\* loaded document is passed over
InsertBill_SkippingDuplicates ==
    /\ pc = "inserting" /\ idx <= Len(order)
    /\ \E done \in {IF check_duplicate_bill(doc, CurrentBill).res
                     THEN [doc |-> doc, exc |-> ""]
                     ELSE insert_single_bill_data(doc, CurrentBill)} :
           /\ doc' = done.doc
           /\ raised' = done.exc
           /\ pc' = IF done.exc = "" THEN "inserting" ELSE "except"
    /\ idx' = idx + 1
    /\ log' = Append(log, order[idx])
    /\ Step("insert")
    /\ UNCHANGED <<bills_data, order, file, backup, orig, cand, result, scanned>>

\* one turn of the for loop: _insert_single_bill_data(doc, bill_data)
InsertBill ==
    /\ pc = "inserting" /\ idx <= Len(order)
    /\ \E done \in {insert_single_bill_data(doc, CurrentBill)} :
           /\ doc' = done.doc
           /\ raised' = done.exc
           /\ pc' = IF done.exc = "" THEN "inserting" ELSE "except"
    /\ idx' = idx + 1
    /\ log' = Append(log, order[idx])
    /\ Step("insert")
    /\ UNCHANGED <<bills_data, order, file, backup, orig, cand, result, scanned>>

\* doc.save(ODS_FILE), after the loop
SaveDocument ==
    /\ pc = "inserting" /\ idx > Len(order)
    /\ file' = FileOf(doc)
    /\ Step("save")
    /\ pc' = "saved"
    /\ UNCHANGED <<bills_data, order, idx, backup, doc, raised, orig, log, cand, result, scanned>>

\* doc.save raises: the file is untouched or holds a partial write
SaveFails ==
    /\ pc = "inserting" /\ idx > Len(order)
    /\ file' \in {file, Corrupt}
    /\ raised' = "SaveError"
    /\ pc' = "except"
    /\ UNCHANGED <<bills_data, order, idx, backup, doc, orig, hist, log, cand, result, scanned>>

\* faulty variant, for sensitivity: the backup is left behind after the save
RemoveBackup_Keeps ==
    /\ pc = "saved"
    /\ Step("remove")
    /\ pc' = "returned"
    /\ UNCHANGED <<bills_data, order, idx, file, backup, doc, raised, orig, log,
                   cand, result, scanned>>

\* remove_backup(backup_path)
RemoveBackup ==
    /\ pc = "saved"
    /\ backup' = NoFile
    /\ Step("remove")
    /\ pc' = "returned"
    /\ UNCHANGED <<bills_data, order, idx, file, doc, raised, orig, log, cand, result, scanned>>

\* remove_backup raises: the backup file is still there
RemoveBackupFails ==
    /\ pc = "saved"
    /\ raised' = "RemoveError"
    /\ pc' = "except"
    /\ UNCHANGED <<bills_data, order, idx, file, backup, doc, orig, hist, log,
                   cand, result, scanned>>

\* faulty variant, for sensitivity: the handler re-raises without restoring the file
Rollback_NoRestore ==
    /\ pc = "except"
    /\ Step("restore")
    /\ pc' = "raised"
    /\ UNCHANGED <<bills_data, order, idx, file, backup, doc, raised, orig, log,
                   cand, result, scanned>>

\* except Exception: restore_from_backup(backup_path, ODS_FILE); raise
Rollback ==
    /\ pc = "except"
    /\ file' = backup
    /\ Step("restore")
    /\ pc' = "raised"
    /\ UNCHANGED <<bills_data, order, idx, backup, doc, raised, orig, log, cand, result, scanned>>

Init ==
    /\ pc = "call"
    /\ bills_data \in Batches
    /\ \E d \in DocPool : file = FileOf(d) /\ orig = FileOf(d)
    /\ order = <<>>
    /\ idx = 0
    /\ backup = NoFile
    /\ doc = NoDoc
    /\ raised = ""
    /\ hist = <<>>
    /\ log = <<>>
    /\ cand = NoCand
    /\ result = FALSE
    /\ scanned = 0

Next ==
    \/ ReturnEmpty
    \/ SortBills
    \/ SortRaises
    \/ CreateBackup
    \/ CreateBackupFails
    \/ LoadDocument
    \/ LoadFails
    \/ InsertBill
    \/ SaveDocument
    \/ SaveFails
    \/ RemoveBackup
    \/ RemoveBackupFails
    \/ Rollback

Spec == Init /\ [][Next]_vars

----------------------------------------------------------------------------
(* check_duplicate_bill: the sheets and the candidates it is run on *)

Weiss == <<"W", "e", "i", "ß">>

\* rows a month sheet is made of; 15 January 2025 is the candidates' day
DupRowPool ==
    { \* first row of a bill of several items: the total is further down
      MkRow(7, DotStr(15, 1, 25), Rewe, "milk", Num(4000), EmptyCell, EmptyTail(7)),
      \* a one-item bill, the store typed in capitals between blanks
      MkRow(7, DotStr(15, 1, 25), Padded(Upper(Rewe)), "tea", Num(10000), Num(10000),
            EmptyTail(7)),
      \* a one-item bill of the same day and store with another total
      MkRow(7, DotStr(15, 1, 25), Rewe, "wine", Num(20000), Num(20000), EmptyTail(7)),
      \* a one-item bill of the next day, the date stored as ISO text
      MkRow(7, IsoStr(2025, 1, 16), Rewe, "tea", Num(10000), Num(10000), EmptyTail(7)),
      \* a one-item bill of a store with a sharp s
      MkRow(7, DotStr(15, 1, 25), Weiss, "rolls", Num(10000), Num(10000), EmptyTail(7)),
      \* last item row of a bill
      MkRow(7, EmptyStr, <<>>, "oil", Num(6000), Num(10000), EmptyTail(7)),
      \* item row in the middle of a bill
      MkRow(7, EmptyStr, <<>>, "jam", Num(3000), EmptyCell, EmptyTail(7)),
      BlankRow(7),
      \* a row of two cells that carries the next day's date
      MkRow(2, IsoStr(2025, 1, 16), <<>>, "", EmptyCell, EmptyCell, <<>>) }

DupSheets == UNION {[1..n -> DupRowPool] : n \in 0..MaxRows}

\* the month sheet is named as find_sheet_by_name expects it, or in lower case
DupDocs ==
    { << Sheet("Feb 25", FebRows), Sheet(nm, rows) >> :
        nm \in {"Jan 25", "jan 25"}, rows \in DupSheets }

\* candidates: 15 January 2025 or 15 March 2025 (no sheet), totals 10.00,
\* 10.009 and 10.01
Candidates ==
    { Bill(st, dt, <<Item("tea", tot)>>, tot) :
        st \in {Rewe, Weiss},
        dt \in {IsoStr(2025, 1, 15), DotStr(15, 3, 25)},
        tot \in {10000, 10009, 10010} }

\* the answers of the calls so far are kept in hist, their number in idx
Answer(res) == IF res THEN "duplicate" ELSE "new"

\* faulty variant, for sensitivity: a check that finds the bill strikes the
\* rows of every sheet from the file
CheckDuplicateBill_Consuming ==
    /\ pc \in {"dup_call", "dup_done"} /\ idx < MaxCalls
    /\ file.state = "ok"
    /\ doc' = file.doc
    /\ \E r \in {check_duplicate_bill(file.doc, cand)} :
          /\ result' = r.res
          /\ scanned' = r.scanned
          /\ hist' = Append(hist, Answer(r.res))
          /\ file' = IF r.res
                     THEN FileOf([s \in 1..Len(file.doc) |-> Sheet(file.doc[s].name, <<>>)])
                     ELSE file
    /\ idx' = idx + 1
    /\ pc' = "dup_done"
    /\ UNCHANGED <<bills_data, order, backup, raised, orig, log, cand>>

\* check_duplicate_bill(bill_data): load(ODS_FILE), then _check_duplicate_bill,
\* which reads the rows and writes nothing; the caller may call it again
CheckDuplicateBill ==
    /\ pc \in {"dup_call", "dup_done"} /\ idx < MaxCalls
    /\ file.state = "ok"
    /\ doc' = file.doc
    /\ \E r \in {check_duplicate_bill(file.doc, cand)} :
          /\ result' = r.res
          /\ scanned' = r.scanned
          /\ hist' = Append(hist, Answer(r.res))
    /\ idx' = idx + 1
    /\ pc' = "dup_done"
    /\ UNCHANGED <<bills_data, order, file, backup, raised, orig, log, cand>>

InitDup ==
    /\ pc = "dup_call"
    /\ bills_data = <<>>
    /\ \E d \in DupDocs : file = FileOf(d) /\ orig = FileOf(d)
    /\ order = <<>>
    /\ idx = 0
    /\ backup = NoFile
    /\ doc = NoDoc
    /\ raised = ""
    /\ hist = <<>>
    /\ log = <<>>
    /\ cand \in Candidates
    /\ result = FALSE
    /\ scanned = 0

NextDup == CheckDuplicateBill

SpecDup == InitDup /\ [][NextDup]_vars

----------------------------------------------------------------------------
(* _check_duplicate_bill step by step: idx is the index of its for loop,   *)
(* scanned the index the while loop of _process_bill_row_for_duplicate     *)
(* goes on from, log the values it took for the row at hand                *)

ScanRowPool ==
    { \* first row of a bill of several items: the total is further down
      MkRow(7, DotStr(15, 1, 25), Rewe, "milk", Num(4000), EmptyCell, EmptyTail(7)),
      \* a one-item bill of the candidates' day and store with another total
      MkRow(7, DotStr(15, 1, 25), Rewe, "wine", Num(20000), Num(20000), EmptyTail(7)),
      \* a one-item bill with the candidates' total
      MkRow(7, DotStr(15, 1, 25), Padded(Upper(Rewe)), "tea", Num(10000), Num(10000),
            EmptyTail(7)),
      \* last item row of a bill
      MkRow(7, EmptyStr, <<>>, "oil", Num(6000), Num(10000), EmptyTail(7)),
      \* a row of two cells
      MkRow(2, IsoStr(2025, 1, 16), <<>>, "", EmptyCell, EmptyCell, <<>>) }

ScanSheets == UNION {[1..n -> ScanRowPool] : n \in 0..MaxRows}

\* candidates: a store the rows name, one they do not name, and a month
\* without a sheet
ScanCandidates ==
    { Bill(Rewe, IsoStr(2025, 1, 15), <<Item("tea", 10000)>>, 10000),
      Bill(Weiss, IsoStr(2025, 1, 15), <<Item("tea", 10000)>>, 10000),
      Bill(Rewe, DotStr(15, 3, 25), <<Item("tea", 10000)>>, 10000) }

\* target_sheet, rows and criteria of _check_duplicate_bill
ScanSheet == find_sheet_by_name(doc, SheetNameOf(DparserParse(cand.date)))
ScanRowsOf == At(doc, ScanSheet).rows
ScanCriteria == Criteria(cand, DparserParse(cand.date))

\* find_sheet_by_name and `if not target_sheet: return False`
ScanStart ==
    /\ pc = "scan_call"
    /\ IF ScanSheet = NONE
       THEN pc' = "scan_done" /\ result' = FALSE
       ELSE pc' = "scan_for" /\ UNCHANGED result
    /\ UNCHANGED <<bills_data, order, idx, file, backup, doc, raised, orig, hist, log,
                   cand, scanned>>

\* one turn of `for idx in range(len(rows))` up to the while loop: a row
\* without the target date makes _process_bill_row_for_duplicate return False
ScanRow ==
    /\ pc = "scan_for" /\ idx < Len(ScanRowsOf)
    /\ IF has_matching_date(At(ScanRowsOf, idx), ScanCriteria.date)
       THEN pc' = "scan_while" /\ scanned' = idx /\ log' = <<>> /\ UNCHANGED idx
       ELSE idx' = idx + 1 /\ UNCHANGED <<pc, scanned, log>>
    /\ UNCHANGED <<bills_data, order, file, backup, doc, raised, orig, hist, cand, result>>

\* the for loop has run out: return False
ScanEnd ==
    /\ pc = "scan_for" /\ idx >= Len(ScanRowsOf)
    /\ pc' = "scan_done"
    /\ result' = FALSE
    /\ UNCHANGED <<bills_data, order, idx, file, backup, doc, raised, orig, hist, log,
                   cand, scanned>>

\* faulty variant, for sensitivity: the while loop without `idx += 1`
RetryTurn_NoAdvance ==
    /\ pc = "scan_while"
    /\ \E store_idx \in {get_store_from_bill_start(ScanRowsOf, scanned,
                                                   ScanCriteria.store_normalized)} :
          IF store_idx = NONE
          THEN pc' = "scan_for" /\ idx' = idx + 1 /\ UNCHANGED <<scanned, log, result>>
          ELSE IF find_total_in_bill_group(ScanRowsOf, store_idx, ScanCriteria.total) # NONE
               THEN pc' = "scan_done" /\ result' = TRUE /\ UNCHANGED <<idx, scanned, log>>
               ELSE /\ scanned' = store_idx
                    /\ log' = Append(log, store_idx)
                    /\ UNCHANGED <<pc, idx, result>>
    /\ UNCHANGED <<bills_data, order, file, backup, doc, raised, orig, hist, cand>>

\* one turn of `while new_idx is None`: no store from idx on returns False
\* to the for loop, a total in the group of the store row returns True, and
\* otherwise the loop goes on from the row after the store row
RetryTurn ==
    /\ pc = "scan_while"
    /\ \E store_idx \in {get_store_from_bill_start(ScanRowsOf, scanned,
                                                   ScanCriteria.store_normalized)} :
          IF store_idx = NONE
          THEN pc' = "scan_for" /\ idx' = idx + 1 /\ UNCHANGED <<scanned, log, result>>
          ELSE IF find_total_in_bill_group(ScanRowsOf, store_idx, ScanCriteria.total) # NONE
               THEN pc' = "scan_done" /\ result' = TRUE /\ UNCHANGED <<idx, scanned, log>>
               ELSE /\ scanned' = store_idx + 1
                    /\ log' = Append(log, store_idx + 1)
                    /\ UNCHANGED <<pc, idx, result>>
    /\ UNCHANGED <<bills_data, order, file, backup, doc, raised, orig, hist, cand>>

InitScan ==
    /\ pc = "scan_call"
    /\ bills_data = <<>>
    /\ \E rows \in ScanSheets :
          /\ doc = <<Sheet("Jan 25", rows)>>
          /\ file = FileOf(doc) /\ orig = FileOf(doc)
    /\ order = <<>>
    /\ idx = 0
    /\ backup = NoFile
    /\ raised = ""
    /\ hist = <<>>
    /\ log = <<>>
    /\ cand \in ScanCandidates
    /\ result = FALSE
    /\ scanned = 0

NextScan == ScanStart \/ ScanRow \/ ScanEnd \/ RetryTurn

\* the call runs on one thread and nothing holds it up: a step that can be
\* taken is taken
SpecScan == InitScan /\ [][NextScan]_vars /\ WF_vars(NextScan)

----------------------------------------------------------------------------
(* find_date_row and create_new_date_row as _find_target_sheet_and_row calls *)
(* them, on sheets made of the rows below                                    *)

SheetRowPool ==
    { \* a bill anchored on 15 January
      MkRow(7, DotStr(15, 1, 25), Rewe, "tea", Num(250), Num(250), EmptyTail(7)),
      \* an empty date row for 15 January, the date held as ISO text
      MkRow(7, IsoStr(2025, 1, 15), <<>>, "", EmptyCell, EmptyCell, EmptyTail(7)),
      \* a bill under a DATE cell whose text is no date
      MkRow(7, BadStr, Aldi, "jam", Num(400), EmptyCell, EmptyTail(7)),
      \* a bill anchored on 12 January, the date held as ISO text
      MkRow(7, IsoStr(2025, 1, 12), Rewe, "rice", Num(700), Num(700), EmptyTail(7)),
      \* last item row of a bill
      MkRow(7, EmptyStr, <<>>, "oil", Num(600), Num(1000), EmptyTail(7)),
      BlankRow(7),
      \* a row of one cell: no DATE cell
      MkRow(1, EmptyStr, <<>>, "", EmptyCell, EmptyCell, <<>>),
      \* a bill in a row of five cells: no TOTAL cell
      MkRow(5, DotStr(3, 1, 25), Aldi, "salt", Num(900), EmptyCell, <<>>),
      \* an empty row of twelve cells
      BlankRow(12),
      \* an item row of nine cells
      MkRow(9, EmptyStr, <<>>, "soap", Num(200), EmptyCell, EmptyTail(9)) }

SheetRowLists == UNION {[1..n -> SheetRowPool] : n \in 0..MaxRows}

\* the bills whose date row is looked for: 15 and 12 January 2025
TargetBills ==
    { Bill(Rewe, dt, <<Item("milk", 1500)>>, 1500) :
        dt \in {DotStr(15, 1, 25), DotStr(12, 1, 25)} }

\* target_row_idx = find_date_row(target_sheet, date_parsed.date())
FindDateRow ==
    /\ pc = "sheet_call"
    /\ \E found \in {find_date_row(At(doc, 0).rows, DparserParse(cand.date))} :
          /\ result' = found
          /\ pc' = IF found = NONE THEN "no_date_row" ELSE "date_row_found"
    /\ UNCHANGED <<bills_data, order, idx, file, backup, doc, raised, orig, hist, log,
                   cand, scanned>>

\* if target_row_idx is None: target_row_idx = create_new_date_row(...)
CreateNewDateRow ==
    /\ pc = "no_date_row"
    /\ \E made \in {create_new_date_row(At(doc, 0).rows, DparserParse(cand.date))} :
          /\ doc' = <<Sheet(At(doc, 0).name, made.rows)>>
          /\ result' = made.idx
    /\ pc' = "date_row_created"
    /\ UNCHANGED <<bills_data, order, idx, file, backup, raised, orig, hist, log,
                   cand, scanned>>

InitSheet ==
    /\ pc = "sheet_call"
    /\ bills_data = <<>>
    /\ \E rows \in SheetRowLists :
          /\ doc = <<Sheet("Jan 25", rows)>>
          /\ file = FileOf(doc) /\ orig = FileOf(doc)
    /\ order = <<>>
    /\ idx = 0
    /\ backup = NoFile
    /\ raised = ""
    /\ hist = <<>>
    /\ log = <<>>
    /\ cand \in TargetBills
    /\ result = NONE
    /\ scanned = 0

NextSheet == FindDateRow \/ CreateNewDateRow

SpecSheet == InitSheet /\ [][NextSheet]_vars

----------------------------------------------------------------------------
(* What the claims speak about *)

Has(name) == \E i \in 1..Len(hist) : hist[i] = name
Count(name) == Cardinality({i \in 1..Len(hist) : hist[i] = name})

\* the place of a step in Idle -> BackedUp -> Loaded -> Mutating -> Saved/RolledBack
Rank(name) ==
    CASE name = "backup" -> 1 [] name = "load" -> 2 [] name = "insert" -> 3
      [] name = "save" -> 4 [] name = "remove" -> 5 [] name = "restore" -> 6

Ended == pc \in {"returned", "raised"}

\* the sheet a bill resolves to is not in the document
SheetMissing(d, bill) ==
    /\ DparserParse(bill.date) # NONE
    /\ \A i \in 1..Len(d) : d[i].name # SheetNameOf(DparserParse(bill.date))

\* the document after the bills at the given input positions went in, in
\* that order, each by _insert_single_bill_data
RECURSIVE InsertAll(_, _, _)
InsertAll(d, bills, positions) ==
    IF positions = <<>> THEN d
    ELSE InsertAll(insert_single_bill_data(d, At(bills, Head(positions))).doc, bills,
                   Tail(positions))

\* C1: atomicity.  When a run that created its backup ends with an exception
\* (the load, an insertion, the save or the deletion of the backup raised),
\* the document file holds what it held before the call, the handler has
\* restored it, and the exception that leaves the call is the one of the
\* step that failed.
C1_Atomicity ==
    (pc = "raised" /\ Has("backup")) =>
        /\ file = orig
        /\ Has("restore")
        /\ raised = (IF ~Has("load") THEN "LoadError"
                     ELSE IF Has("save") THEN "RemoveError"
                     ELSE IF Count("insert") = Len(bills_data)
                             /\ insert_single_bill_data(
                                    InsertAll(orig.doc, bills_data,
                                              SubSeq(log, 1, Len(log) - 1)),
                                    At(bills_data, log[Len(log)])).exc = ""
                          THEN "SaveError"
                     ELSE "IndexError")

\* C1 witness: a batch of three whose third insertion raised after two bills
\* had changed the loaded document; the file is what it was
C1_Witness ==
    /\ pc = "raised" /\ raised = "IndexError"
    /\ Len(bills_data) = 3 /\ Len(log) = 3
    /\ InsertAll(orig.doc, bills_data, SubSeq(log, 1, 2)) # orig.doc
    /\ doc # orig.doc
    /\ file = orig

\* C2: the steps of a run come in the order backup, load, insertions, save,
\* then removal of the backup or the restore: the backup precedes the load,
\* the document is loaded once and never again, the file is not written
\* while bills are inserted, and it is saved at most once and only after
\* every bill of the batch has been handed to the insertion.
C2_StepOrder ==
    /\ \A i, j \in 1..Len(hist) : i < j => Rank(hist[i]) <= Rank(hist[j])
    /\ \A name \in {"backup", "load", "save", "remove", "restore"} : Count(name) <= 1
    /\ hist # <<>> => hist[1] = "backup"
    /\ (Has("insert") \/ Has("save")) => Count("load") = 1
    /\ Has("save") => Count("insert") = Len(bills_data)
    /\ Has("remove") => Has("save")
    /\ ~(Has("remove") /\ Has("restore"))
    /\ pc \in {"sorted", "backed_up", "inserting"} => file = orig
    /\ pc = "returned" /\ bills_data # <<>> =>
           hist = <<"backup", "load">> \o [i \in 1..Len(bills_data) |-> "insert"]
                    \o <<"save", "remove">>

\* C2 witness: a run over three bills that went through every step
C2_Witness ==
    /\ pc = "returned"
    /\ hist = <<"backup", "load", "insert", "insert", "insert", "save", "remove">>
    /\ file # orig

\* C3 as stated: no run both saves and restores from the backup
C3_NeverSavedAndRestored == ~(Has("save") /\ Has("restore"))

\* C3, amended: a run that created its backup ends either Saved (it returns,
\* the file holds the loaded document with the batch's insertions and the
\* backup is gone) or RolledBack (it raises and the file has been restored
\* from the backup), never both as its end; the saved file is overwritten by
\* the backup in exactly the runs where deleting the backup raised.
C3_SavedOrRolledBack ==
    /\ (Ended /\ Has("backup")) =>
          \/ /\ pc = "returned" /\ raised = "" /\ ~Has("restore")
             /\ file = FileOf(InsertAll(orig.doc, bills_data, order))
             /\ backup = NoFile
          \/ /\ pc = "raised" /\ raised # "" /\ Has("restore")
             /\ file = orig /\ backup = orig
    /\ (Has("save") /\ Has("restore")) <=> (pc = "raised" /\ raised = "RemoveError")

\* C3 witness: the save succeeded, deleting the backup raised, and the file
\* that had held the insertions is the original again
C3_Witness ==
    /\ pc = "raised" /\ raised = "RemoveError"
    /\ Has("save") /\ Has("restore")
    /\ doc # orig.doc
    /\ file = orig

\* C4: a call with an empty list does nothing: no backup, no load, no save,
\* the file as before, and it returns normally.
C4_EmptyIsNoOp ==
    bills_data = <<>> =>
        /\ pc \in {"call", "returned"}
        /\ hist = <<>> /\ log = <<>>
        /\ file = orig /\ backup = NoFile /\ doc = NoDoc
        /\ raised = ""

C4_Witness == bills_data = <<>> /\ pc = "returned"

\* C5: the bills are handed to the insertion in ascending order of their
\* parsed dates, bills of equal date in their input order; a run that saves
\* has handed over every bill once.
C5_SortedStable ==
    /\ \A i, j \in 1..Len(log) : i < j =>
          \/ SortKey(At(bills_data, log[i])) < SortKey(At(bills_data, log[j]))
          \/ /\ SortKey(At(bills_data, log[i])) = SortKey(At(bills_data, log[j]))
             /\ log[i] < log[j]
    /\ Has("save") => {log[i] : i \in 1..Len(log)} = 0..(Len(bills_data) - 1)

\* C5 witness: three bills given out of order, two of them of the same date
C5_Witness ==
    /\ pc = "returned" /\ Len(log) = 3
    /\ log # <<0, 1, 2>>
    /\ \E i, j \in 0..2 :
          i < j /\ SortKey(At(bills_data, i)) = SortKey(At(bills_data, j))
                /\ At(bills_data, i) # At(bills_data, j)

\* the input positions of the bills whose sheet exists, in processing order
RECURSIVE WithSheet(_, _, _)
WithSheet(d, bills, positions) ==
    IF positions = <<>> THEN <<>>
    ELSE (IF SheetMissing(d, At(bills, Head(positions))) THEN <<>>
          ELSE <<Head(positions)>>) \o WithSheet(d, bills, Tail(positions))

\* C6: the insertion of a bill whose month sheet is missing raises nothing
\* and leaves every sheet as it was, and the loop goes on; a run that
\* returns has saved exactly the insertions of the bills whose sheet exists
\* and has removed its backup.
C6_SkipStep ==
    (pc = "inserting" /\ idx <= Len(order) /\ SheetMissing(doc, CurrentBill)) =>
        (doc' = doc /\ raised' = "" /\ pc' = "inserting" /\ idx' = idx + 1
           /\ file' = file /\ backup' = backup)

C6_SkipSaved ==
    (pc = "returned" /\ bills_data # <<>>) =>
        /\ file = FileOf(InsertAll(orig.doc, bills_data,
                                   WithSheet(orig.doc, bills_data, order)))
        /\ backup = NoFile

----------------------------------------------------------------------------
(* The duplicate check: what the claims say of check_duplicate_bill *)

DupDone == pc = "dup_done"

\* the candidate's date and the rows of its month sheet
CandDate == DparserParse(cand.date)
CandSheet == find_sheet_by_name(doc, SheetNameOf(CandDate))
CandRows == At(doc, CandSheet).rows

\* a row whose date parses to the candidate's date
DateMatches(rows, i) ==
    DateText(At(rows, i)) /\ ParseDate(At(rows, i).date) = CandDate

\* row j is reached from row i before any later row with a date
Reaches(rows, i, j) ==
    i <= j /\ \A m \in (i + 1)..j : ~DateText(At(rows, m))

\* a row whose store is the candidate's, case and blanks aside
StoreMatches(rows, j) ==
    StoreText(At(rows, j)) /\ Normalized(At(rows, j).store) = Normalized(cand.store)

NumericTotal(row) == row.n > COL_TOTAL /\ row.total.k = "num"

\* the row of the first numeric total at or after j, before any later row
\* with a date or a store
FirstTotal(rows, j) ==
    FirstOrNone({k \in j..(Len(rows) - 1) :
                   /\ NumericTotal(At(rows, k))
                   /\ \A m \in (j + 1)..k :
                        ~DateText(At(rows, m)) /\ ~StoreText(At(rows, m))})

StoredTotal(rows, k) == At(rows, k).total.v

Within(a, b) == a - b < EPSILON /\ b - a < EPSILON

\* the bill group of date row i and store row j has a total
GroupAt(rows, i, j) ==
    /\ DateMatches(rows, i)
    /\ Reaches(rows, i, j)
    /\ StoreMatches(rows, j)
    /\ FirstTotal(rows, j) # NONE

RowIndices(rows) == 0..(Len(rows) - 1)

\* the sheet holds one dated row, so one bill group at most
OneGroup(rows) == Cardinality({i \in RowIndices(rows) : DateText(At(rows, i))}) = 1

\* C7: when the candidate's date and store match the bill group of a sheet,
\* the candidate is a duplicate exactly when the group's total and the
\* candidate's differ by less than 0.01.  The code compares the two totals
\* with `!=`, so TLC refutes this with a stored 10.00 and a candidate 10.009.
C7_ToleranceDecides ==
    (DupDone /\ CandSheet # NONE /\ OneGroup(CandRows)) =>
        \A i, j \in RowIndices(CandRows) :
            GroupAt(CandRows, i, j) =>
                (result <=> Within(StoredTotal(CandRows, FirstTotal(CandRows, j)),
                                   cand.total))

\* C8: with the sheet found, the candidate is a duplicate if and only if some
\* row i carries its date, a row j with its store follows from i on before
\* any later dated row, and the first numeric total at or after j, before
\* any later row with a date or a store, is the candidate's total.  The
\* retry of the code passes over the date of the row it restarts on, so TLC
\* refutes this with two one-row bills of consecutive days.
C8_GroupBoundary ==
    (DupDone /\ CandSheet # NONE) =>
        (result <=>
            \E i, j \in RowIndices(CandRows) :
                /\ GroupAt(CandRows, i, j)
                /\ StoredTotal(CandRows, FirstTotal(CandRows, j)) = cand.total)

\* C9: the answer for a candidate is the answer for the same candidate with
\* its store in upper case, and with its store between blanks.  str.lower
\* does not undo str.upper for a sharp s, so TLC refutes this with the store
\* Weiß against WEISS.
C9_StoreCaseAndBlanks ==
    DupDone =>
        /\ result = check_duplicate_bill(doc, [cand EXCEPT !.store = Upper(@)]).res
        /\ result = check_duplicate_bill(doc, [cand EXCEPT !.store = Padded(@)]).res

\* C10: when no sheet is named after the month of the candidate's date, the
\* answer is "no duplicate" and no row of any sheet has been looked at.
C10_NoSheetNoScan ==
    (DupDone /\ SheetMissing(doc, cand)) => (result = FALSE /\ scanned = 0)

\* C10 witness: the check has answered for a candidate whose month sheet is
\* missing while a sheet whose name differs in case only holds the very bill
C10_Witness ==
    /\ DupDone /\ SheetMissing(doc, cand)
    /\ \E s \in 1..Len(doc) :
          /\ doc[s].name = "jan 25"
          /\ ScanRows(doc[s].rows, 0, Criteria(cand, CandDate)).res

----------------------------------------------------------------------------
(* Insertion: what the claims say of the rows *)

\* the places <<sheet, row>> of a document, both counted from 1
Places(d) == UNION {{<<s, i>> : i \in 1..Len(d[s].rows)} : s \in 1..Len(d)}

\* a row that holds the store and the first item of the bill
IsHeadOf(row, bill) ==
    /\ bill.items # <<>>
    /\ row.store = bill.store
    /\ row.item = bill.items[1].name
    /\ row.price = Num(bill.items[1].price)

HeadRows(d, bill) == {p \in Places(d) : IsHeadOf(d[p[1]].rows[p[2]], bill)}

Copies(bills, bill) == Cardinality({i \in 1..Len(bills) : bills[i] = bill})

\* C12: a batch is inserted bill by bill without a look at the bills that
\* went in before: in the saved file every bill whose sheet exists heads as
\* many more groups than before as the batch holds copies of it, so two
\* bills of the same date, store and total give two groups.
C12_BatchDuplicatesInserted ==
    pc = "returned" =>
        \A i \in 1..Len(bills_data) :
            ~SheetMissing(orig.doc, bills_data[i]) =>
                Cardinality(HeadRows(file.doc, bills_data[i])) =
                    Cardinality(HeadRows(orig.doc, bills_data[i]))
                      + Copies(bills_data, bills_data[i])

\* C12 witness: a saved batch that held the same bill twice, both in the file
C12_Witness ==
    /\ pc = "returned"
    /\ \E i, j \in 1..Len(bills_data) :
          /\ i < j /\ bills_data[i] = bills_data[j]
          /\ Cardinality(HeadRows(file.doc, bills_data[i])) >= 2

\* the sheet and the date row a bill goes to
SheetOf(d, bill) == find_sheet_by_name(d, SheetNameOf(DparserParse(bill.date)))
TargetOf(d, bill, s) == find_date_row(At(d, s).rows, DparserParse(bill.date))
TargetRowOf(d, bill, s) == At(At(d, s).rows, TargetOf(d, bill, s))

\* the bill has a date row in its sheet and the write into it succeeds
HasTarget(d, bill) ==
    /\ DparserParse(bill.date) # NONE
    /\ SheetOf(d, bill) # NONE
    /\ TargetOf(d, bill, SheetOf(d, bill)) # NONE
    /\ bill.items # <<>>
    /\ TargetRowOf(d, bill, SheetOf(d, bill)).n > COL_PRICE

\* the date row of the bill already anchors a bill
Anchored(d, bill) ==
    HasTarget(d, bill) /\ StoreText(TargetRowOf(d, bill, SheetOf(d, bill)))

\* a row made for one further item: no date, no store
IsItemRowOf(row, item) ==
    /\ row.item = item.name /\ row.price = Num(item.price)
    /\ row.store = <<>> /\ row.date = EmptyStr

\* STORE, ITEM, PRICE and TOTAL of the two rows are the same
SameContents(row, old) ==
    /\ row.store = old.store /\ row.item = old.item
    /\ row.price = old.price /\ row.total = old.total

\* the rows of the sheet after bill went into date row t, which held a bill:
\* the bill's n rows from t on, one blank row, the former header, the rest
RelocatedRows(rows, new_rows, t, bill, n) ==
    /\ Len(new_rows) = Len(rows) + n + 1
    /\ \A i \in 0..(t - 1) : At(new_rows, i) = At(rows, i)
    /\ IsHeadOf(At(new_rows, t), bill)
    /\ At(new_rows, t).date = At(rows, t).date
    /\ \A k \in 1..(n - 1) : IsItemRowOf(At(new_rows, t + k), bill.items[k + 1])
    /\ At(new_rows, t + n) = BlankRow(At(rows, t).n)
    /\ SameContents(At(new_rows, t + n + 1), At(rows, t))
    /\ \A i \in (t + 1)..(Len(rows) - 1) : At(new_rows, i + n + 1) = At(rows, i)

RelocatedAt(d, d2, bill, s) ==
    /\ Len(d2) = Len(d)
    /\ \A o \in 0..(Len(d) - 1) : o # s => At(d2, o) = At(d, o)
    /\ At(d2, s).name = At(d, s).name
    /\ RelocatedRows(At(d, s).rows, At(d2, s).rows, TargetOf(d, bill, s), bill,
                     Len(bill.items))

\* the documents the loop had before each of its turns so far
DocBefore(k) == InsertAll(orig.doc, bills_data, SubSeq(log, 1, k - 1))

\* the turns of the loop so far whose bill met a date row that held a bill
AnchoredTurns ==
    {k \in 1..Len(log) : Anchored(DocBefore(k), At(bills_data, log[k]))}

C13_RelocationStep ==
    (pc = "inserting" /\ idx <= Len(order) /\ Anchored(doc, CurrentBill)) =>
        /\ raised' = ""
        /\ RelocatedAt(doc, doc', CurrentBill, SheetOf(doc, CurrentBill))

\* C13: a bill B inserted on a date whose row anchors a bill A leaves B's
\* rows from the date row on, then one blank row, then a row with A's former
\* STORE, ITEM, PRICE and TOTAL, then the rows that followed A's header; the
\* rows above and the other sheets are as before.  It is a property of every
\* turn of the loop, so of each further bill of the same date too.
C13_RelocationOnOverwrite == [][C13_RelocationStep]_vars

\* C13 witness: a saved batch in which two bills in turn met a date row
\* that held a bill
C13_Witness ==
    /\ pc = "returned"
    /\ Cardinality(AnchoredTurns) >= 2

\* no row of the bill's sheet carries the bill's date, however it is read
NoRowFor(d, bill) ==
    /\ DparserParse(bill.date) # NONE
    /\ SheetOf(d, bill) # NONE
    /\ \A i \in RowIndices(At(d, SheetOf(d, bill)).rows) :
          /\ ParseDate(At(At(d, SheetOf(d, bill)).rows, i).date) # DparserParse(bill.date)
          /\ DparserParse(At(At(d, SheetOf(d, bill)).rows, i).date)
                # DparserParse(bill.date)

\* two bills of the batch of different dates that go to the same sheet and
\* have no row there when the call starts
NewDatesPair(early, late) ==
    /\ NoRowFor(orig.doc, early) /\ NoRowFor(orig.doc, late)
    /\ SheetOf(orig.doc, early) = SheetOf(orig.doc, late)
    /\ SortKey(early) < SortKey(late)

\* every header row of early lies above every header row of late
HeadsInOrder(d, early, late) ==
    \A p \in HeadRows(d, early) : \A q \in HeadRows(d, late) :
        p[1] = q[1] /\ p[2] < q[2]

\* C14: of two bills of one batch with different dates for which the sheet
\* had no row, the header row of the earlier date is above the header row of
\* the later date in the saved file, whatever the order in the input.
C14_ChronologicalHeaders ==
    pc = "returned" =>
        \A i, j \in 1..Len(bills_data) :
            NewDatesPair(bills_data[i], bills_data[j]) =>
                /\ HeadRows(file.doc, bills_data[i]) # {}
                /\ HeadRows(file.doc, bills_data[j]) # {}
                /\ HeadsInOrder(file.doc, bills_data[i], bills_data[j])

\* C14 witness: a saved batch that gave the later date first
C14_Witness ==
    /\ pc = "returned"
    /\ \E i, j \in 1..Len(bills_data) :
          i > j /\ NewDatesPair(bills_data[i], bills_data[j])

\* C15: when create_backup raises, the call ends there with that exception:
\* the document has not been loaded, no bill has been inserted, nothing has
\* been saved or restored, and the file is what it was.
C15_BackupFailureAborts ==
    raised = "BackupError" =>
        /\ pc = "raised"
        /\ hist = <<>> /\ log = <<>>
        /\ doc = NoDoc
        /\ file = orig

\* C15 witness: the backup of a batch of several bills failed
C15_Witness ==
    /\ pc = "raised" /\ raised = "BackupError"
    /\ Len(bills_data) >= 2

\* the rows of the bill's sheet once the date row is there, and its index
TargetIn(d, bill) ==
    find_target_row(At(d, SheetOf(d, bill)).rows, DparserParse(bill.date))

\* the insertion of the bill reaches a target row and writes the header
Inserts(d, bill) ==
    /\ DparserParse(bill.date) # NONE
    /\ SheetOf(d, bill) # NONE
    /\ bill.items # <<>>
    /\ At(TargetIn(d, bill).rows, TargetIn(d, bill).idx).n > COL_PRICE

\* rows the insertion adds after row r: one per further item, and two more
\* when the old content of row r is put back
Shift(old_row, bill) ==
    Len(bill.items) - 1 + (IF has_existing_data(old_row) THEN 2 ELSE 0)

\* the bill's rows from r on in item order, the rows above r as they were,
\* the rows that followed r below every row added, in their order
PlacedRows(rows, new_rows, r, bill, shift) ==
    /\ Len(new_rows) = Len(rows) + shift
    /\ \A i \in 0..(r - 1) : At(new_rows, i) = At(rows, i)
    /\ IsHeadOf(At(new_rows, r), bill)
    /\ \A k \in 1..(Len(bill.items) - 1) :
          IsItemRowOf(At(new_rows, r + k), bill.items[k + 1])
    /\ \A i \in (r + 1)..(Len(rows) - 1) : At(new_rows, i + shift) = At(rows, i)

PlacedAt(tgt, new_rows, bill) ==
    PlacedRows(tgt.rows, new_rows, tgt.idx, bill, Shift(At(tgt.rows, tgt.idx), bill))

C16_PlacementStep ==
    (pc = "inserting" /\ idx <= Len(order) /\ Inserts(doc, CurrentBill)) =>
        /\ raised' = ""
        /\ PlacedAt(TargetIn(doc, CurrentBill),
                    At(doc', SheetOf(doc, CurrentBill)).rows, CurrentBill)

\* C16: after a bill of n items went in at target row r, row r holds the
\* store and item 1, rows r+1..r+n-1 hold items 2..n in the bill's order
\* with DATE and STORE empty, the rows above r are untouched, and the rows
\* that followed r come after every row added, in their order; with no row
\* after r the new rows are the last rows of the sheet.
C16_ItemPlacement == [][C16_PlacementStep]_vars

\* the target row of turn k was the last row of its sheet
TargetWasLast(k) ==
    /\ Inserts(DocBefore(k), At(bills_data, log[k]))
    /\ TargetIn(DocBefore(k), At(bills_data, log[k])).idx + 1
         = Len(TargetIn(DocBefore(k), At(bills_data, log[k])).rows)

\* the target row of turn k had a row after it
TargetHadNext(k) ==
    /\ Inserts(DocBefore(k), At(bills_data, log[k]))
    /\ TargetIn(DocBefore(k), At(bills_data, log[k])).idx + 1
         < Len(TargetIn(DocBefore(k), At(bills_data, log[k])).rows)

\* C16 witness: a saved batch in which a bill of three items went in at the
\* last row of its sheet and a bill of several items at a row with a
\* successor
C16_Witness ==
    /\ pc = "returned"
    /\ \E k \in 1..Len(log) :
          Len(At(bills_data, log[k]).items) = 3 /\ TargetWasLast(k)
    /\ \E k \in 1..Len(log) :
          Len(At(bills_data, log[k]).items) >= 2 /\ TargetHadNext(k)

\* the document the loop had after its turn k
DocAfter(k) == InsertAll(orig.doc, bills_data, SubSeq(log, 1, k))

\* of the rows r..r+n-1 of the bill's group the last holds the bill's total
\* in its TOTAL cell and the others hold nothing there
TotalAtEnd(new_rows, r, bill) ==
    \A k \in 0..(Len(bill.items) - 1) :
        At(new_rows, r + k).total =
            (IF k = Len(bill.items) - 1 THEN Num(bill.total) ELSE EmptyCell)

TotalAtEndIn(d, d2, bill) ==
    TotalAtEnd(At(d2, SheetOf(d, bill)).rows, TargetIn(d, bill).idx, bill)

\* C17: every bill with at least one item that went in has its total, zero
\* included, in the TOTAL cell of the last row of its group and no value in
\* the TOTAL cell of the other rows of the group.  create_item_row writes
\* the total only when it is truthy, so TLC refutes this with a bill of two
\* items and a total of 0.
C17_TotalInTerminalRow ==
    \A k \in 1..Len(log) :
        Inserts(DocBefore(k), At(bills_data, log[k])) =>
            TotalAtEndIn(DocBefore(k), DocAfter(k), At(bills_data, log[k]))

\* the old content of target row r is below the n rows of the bill, under
\* one blank row
PutBackBelow(old_row, new_rows, r, n) ==
    /\ Len(new_rows) > r + n + 1
    /\ At(new_rows, r + n) = BlankRow(old_row.n)
    /\ SameContents(At(new_rows, r + n + 1), old_row)

PutBackIn(tgt, d2, bill, s) ==
    PutBackBelow(At(tgt.rows, tgt.idx), At(d2, s).rows, tgt.idx, Len(bill.items))

\* turn k wrote into a row that held a value in STORE, ITEM, PRICE or TOTAL
OverwritesData(k) ==
    /\ Inserts(DocBefore(k), At(bills_data, log[k]))
    /\ RowHasData(At(TargetIn(DocBefore(k), At(bills_data, log[k])).rows,
                     TargetIn(DocBefore(k), At(bills_data, log[k])).idx))

\* C18: whenever the target row holds a value in STORE, ITEM, PRICE or TOTAL
\* before a bill is written into it, that content is found again below the
\* bill's rows, under a blank row.  has_existing_data looks at STORE, ITEM
\* and PRICE only, so TLC refutes this with a target row that holds nothing
\* but a total.
C18_NoPriorDataLost ==
    \A k \in 1..Len(log) :
        OverwritesData(k) =>
            PutBackIn(TargetIn(DocBefore(k), At(bills_data, log[k])), DocAfter(k),
                      At(bills_data, log[k]),
                      SheetOf(DocBefore(k), At(bills_data, log[k])))

----------------------------------------------------------------------------
(* The date row: what the claims say of find_date_row and create_new_date_row *)

\* the rows of the sheet when the search started, and the date looked for
SheetRows == At(orig.doc, 0).rows
TargetDate == DparserParse(cand.date)

\* the rows that have a DATE cell whose text parses to the target date
RowsOfTargetDate ==
    {i \in RowIndices(SheetRows) :
        /\ At(SheetRows, i).n > COL_DATE
        /\ DparserParse(At(SheetRows, i).date) = TargetDate}

\* a row without a DATE cell, with an empty one, or with text that is no date
Unreadable(row) == row.n <= COL_DATE \/ DparserParse(row.date) = NONE

NewSheetRows == At(doc, 0).rows

\* the rows that hold a value in one of the cells STORE..TOTAL they have
DataRows(rows) == {i \in RowIndices(rows) : RowHasData(At(rows, i))}

\* the index right after the last such row, the end of the sheet without one
AfterLastData(rows) ==
    IF DataRows(rows) = {} THEN Len(rows)
    ELSE (CHOOSE i \in DataRows(rows) : \A j \in DataRows(rows) : j <= i) + 1

\* a row whose DATE cell holds the date and whose other cells are empty
IsDateRowFor(row, date) ==
    /\ ParseDate(row.date) = date
    /\ [row EXCEPT !.date = EmptyStr] = BlankRow(row.n)

\* two rows went in at index at, a blank row and a date row, and the rows
\* that were there are around them as they were
TwoRowsAt(rows, new_rows, at, date) ==
    /\ Len(new_rows) = Len(rows) + 2
    /\ \A i \in 0..(at - 1) : At(new_rows, i) = At(rows, i)
    /\ At(new_rows, at) = BlankRow(At(new_rows, at).n)
    /\ IsDateRowFor(At(new_rows, at + 1), date)
    /\ \A i \in at..(Len(rows) - 1) : At(new_rows, i + 2) = At(rows, i)

\* C20: create_new_date_row puts a blank row and, right below it, a row with
\* the target date in DATE and nothing else, immediately after the last row
\* with a value in STORE..TOTAL, at the end of the sheet when no row has
\* one; the rows that were there keep content and order.  The code passes
\* over rows of at most COL_TOTAL cells when it looks for the last row with
\* data, so TLC refutes this with a sheet that ends in a bill row of five
\* cells.
C20_DateRowAfterLastData ==
    pc = "date_row_created" =>
        TwoRowsAt(SheetRows, NewSheetRows, AfterLastData(SheetRows), TargetDate)

\* the index at which create_new_date_row put its date row: one below the
\* place of the blank row, which went in before reference_row
NewDateRowIndex ==
    InsertionPoint(SheetRows, find_last_data_row_and_template(SheetRows).last) + 1

\* C21: the index create_new_date_row returns is the index of the date row
\* it has just put in, also when the new rows went in before trailing rows
\* of the sheet.  _find_new_row_index returns the first row whose DATE value
\* is the ISO text of the date, and find_date_row reads the ISO text
\* 2025-01-12 day first, as 1 December: a date row for 12 January that is
\* already in the sheet is not found, a second one is made, and the index of
\* the first one is returned.
C21_ReturnsNewDateRow ==
    pc = "date_row_created" => result = NewDateRowIndex

\* the widths of the rows with more than COL_TOTAL cells, and of those among
\* them with at most WIDTH_CAP cells
Widths(rows) == {At(rows, i).n : i \in RowIndices(rows)}
CountedWidths(rows) == {n \in Widths(rows) : n > COL_TOTAL /\ n <= WIDTH_CAP}

\* the largest number of a non-empty set
Largest(S) == CHOOSE n \in S : \A m \in S : m <= n

\* the number of cells of the blank row and of the date row just put in
NewRowsHaveWidth(num) ==
    /\ At(NewSheetRows, NewDateRowIndex - 1).n = num
    /\ At(NewSheetRows, NewDateRowIndex).n = num

\* C22 as stated: the rows created have min(max existing row width, 10)
\* cells and never fewer than COL_TOTAL + 1, so ten cells when every row of
\* the sheet is wider than ten.  The code leaves rows wider than ten out
\* instead, so TLC refutes this with a sheet of one row of twelve cells.
C22_WidthIsCappedMaximum ==
    pc = "date_row_created" =>
        NewRowsHaveWidth(
            IF Widths(SheetRows) = {} THEN COL_TOTAL + 1
            ELSE Max(COL_TOTAL + 1,
                     IF Largest(Widths(SheetRows)) <= WIDTH_CAP
                     THEN Largest(Widths(SheetRows)) ELSE WIDTH_CAP))

\* C22, amended: the rows created have as many cells as the widest row that
\* has more than COL_TOTAL and at most ten cells, and COL_TOTAL + 1 cells
\* when the sheet has no such row; rows wider than ten do not count.
C22_WidthIsWidestCounted ==
    pc = "date_row_created" =>
        NewRowsHaveWidth(Largest(CountedWidths(SheetRows) \cup {COL_TOTAL + 1}))

\* C22 witness: date rows made in a sheet that has a row of twelve cells
\* above rows of nine and of seven cells
C22_Witness ==
    /\ pc = "date_row_created"
    /\ Len(SheetRows) = 3
    /\ At(SheetRows, 0).n = 12 /\ At(SheetRows, 1).n = 9 /\ At(SheetRows, 2).n = 7
    /\ NewRowsHaveWidth(9)

\* the row at the target index after the header write of bill into old: the
\* DATE cell as it was, STORE, ITEM and PRICE from the bill; TOTAL written
\* and the cells after it untouched for a bill of one item, TOTAL and the
\* cells after it empty otherwise
HeaderWritten(row, old, bill) ==
    /\ row.n = old.n /\ row.date = old.date
    /\ row.store = bill.store
    /\ row.item = bill.items[1].name
    /\ row.price = Num(bill.items[1].price)
    /\ IF Len(bill.items) = 1
       THEN row.total = Num(bill.total) /\ row.tail = old.tail
       ELSE row.total = EmptyCell /\ row.tail = EmptyTail(old.n)

C23_HeaderStep ==
    (pc = "inserting" /\ idx <= Len(order) /\ HasTarget(doc, CurrentBill)
       /\ TargetRowOf(doc, CurrentBill, SheetOf(doc, CurrentBill)).n > COL_TOTAL) =>
        HeaderWritten(At(At(doc', SheetOf(doc, CurrentBill)).rows,
                         TargetOf(doc, CurrentBill, SheetOf(doc, CurrentBill))),
                      TargetRowOf(doc, CurrentBill, SheetOf(doc, CurrentBill)),
                      CurrentBill)

\* C23: the header write sets STORE, ITEM and PRICE of the target row from
\* the bill's store and first item and leaves DATE as it was; for a bill of
\* exactly one item it writes the total into TOTAL and clears nothing,
\* otherwise it clears TOTAL and every cell after it, so the cells after
\* TOTAL change only for bills of more than one item.  The code clears TOTAL
\* and the cells after it before it looks at the number of items, so TLC
\* refutes this with a bill of one item written into a date row that holds
\* a value after TOTAL.
C23_HeaderWriteFrame == [][C23_HeaderStep]_vars

\* what a row holds in STORE, ITEM, PRICE and TOTAL
ContentsOf(row) ==
    [store |-> row.store, item |-> row.item, price |-> row.price, total |-> row.total]

\* the contents of the rows, in row order
AllContents(rows) == [i \in 1..Len(rows) |-> ContentsOf(rows[i])]

\* the contents of the rows that hold a value in STORE..TOTAL, in row order
DataContents(rows) == AllContents(SelectSeq(rows, RowHasData))

\* xs is what is left of ys when some of its members are taken out
RECURSIVE IsSubseq(_, _)
IsSubseq(xs, ys) ==
    IF xs = <<>> THEN TRUE
    ELSE IF ys = <<>> THEN FALSE
    ELSE IF Head(xs) = Head(ys) THEN IsSubseq(Tail(xs), Tail(ys))
    ELSE IsSubseq(xs, Tail(ys))

\* a bill of the batch resolves to the sheet of that name
Resolves(bill, name) ==
    DparserParse(bill.date) # NONE /\ SheetNameOf(DparserParse(bill.date)) = name

\* sheet by sheet, the data of d is in d2 in the same order between rows
\* that are new, and a sheet no bill resolves to is as it was
DataKept(d, d2, bills) ==
    /\ Len(d2) = Len(d)
    /\ \A s \in 1..Len(d) :
          /\ d2[s].name = d[s].name
          /\ IsSubseq(DataContents(d[s].rows), AllContents(d2[s].rows))
          /\ (\A i \in 1..Len(bills) : ~Resolves(bills[i], d[s].name)) => d2[s] = d[s]

\* C24: the engine neither reorders nor deletes data that was there: after
\* any number of insertions every sheet holds the contents of its former
\* rows in their former order (a relocated row by its restored copy) with
\* only new rows in between, and a sheet no bill resolves to is unchanged.
\* A date row that holds a TOTAL and nothing else counts as empty for
\* has_existing_data, so it is written over without a copy, and TLC refutes
\* this with such a row.
C24_NoReorderNoDelete ==
    /\ pc = "inserting" => DataKept(orig.doc, doc, bills_data)
    /\ pc = "returned" => DataKept(orig.doc, file.doc, bills_data)

\* a turn of the while loop that is followed by another one moves the index
\* the loop goes on from forward, and not past the end of the rows
C25_RetryStep ==
    (pc = "scan_while" /\ pc' = "scan_while") =>
        /\ scanned' > scanned
        /\ scanned' <= Len(ScanRowsOf)

\* C25: the duplicate scan terminates on every finite sheet.  Each turn of
\* the retry loop that finds the store but no total goes on from a strictly
\* larger index, so for one row the loop takes at most as many such turns as
\* the sheet has rows before the store search answers "not found" or a total
\* is found, and the scan ends with a boolean answer.
C25_ScanTerminates ==
    /\ [][C25_RetryStep]_vars
    /\ [](ScanSheet # NONE => Len(log) <= Len(ScanRowsOf))
    /\ <>(pc = "scan_done" /\ result \in BOOLEAN)

\* C25 witness: a scan that ended after the retry loop had gone on twice
\* from a later row
C25_Witness ==
    /\ pc = "scan_done"
    /\ Len(log) >= 2

\* the batch holds a bill whose date text is no date
HasBadDate == \E i \in 1..Len(bills_data) : DparserParse(bills_data[i].date) = NONE

====
